---- MODULE Spec2Model ----
(***************************************************************************)
(* E-Products API (src/main.py): the request handlers list_products,       *)
(* create_order, list_library and test_database over an optional document  *)
(* store, with the static demo data served when the store has no answer.   *)
(*                                                                         *)
(* Python values: a dict is a function from field names to values; a       *)
(* string that is compared with None or with a store identifier is the     *)
(* tagged value Str(s); an ObjectId is Oid(hex); None is NoneVal.  An       *)
(* exception message is a sequence of characters, so that str(e)[:50] and  *)
(* the empty message are what they are in Python.  An element of a list    *)
(* response is either a plain dict (PyDict) or a schema object (PyModel).  *)
(***************************************************************************)
EXTENDS Integers, Sequences, FiniteSets, TLC

VARIABLES db, store, req, resp

vars == <<db, store, req, resp>>

(* ------------------------------ bounds --------------------------------- *)

MaxProducts == 2
MaxLibrary == 2
MaxOrders == 2

(* --------------------------- Python values ----------------------------- *)

NoneVal == [t |-> "none", v |-> ""]
Str(s) == [t |-> "str", v |-> s]
Oid(h) == [t |-> "oid", v |-> h]

\* str(x) of an ObjectId is its hex text; of a string, the string.
PyStr(x) == [t |-> "str", v |-> x.v]

\* Python truthiness of an Optional[str]: None and "" are falsy.
Truthy(x) == x.t = "str" /\ x.v # ""

PyDict(d) == [py |-> "dict", cls |-> "dict", d |-> d]
PyModel(c, d) == [py |-> "model", cls |-> c, d |-> d]

Take(s, n) == SubSeq(s, 1, IF Len(s) < n THEN Len(s) ELSE n)

\* Outcome of evaluating a block: a value, or an exception with a message.
Returned(x) == [raised |-> FALSE, val |-> x, msg |-> <<>>]
Raised(m) == [raised |-> TRUE, val |-> <<>>, msg |-> m]

(* ------------------------------ demo data ------------------------------ *)

DEMO_PRODUCTS ==
  << PyDict([title |-> "Mastering React for Beginners",
             description |-> "Interactive e-book with hands-on projects.",
             price |-> 29,
             cover_image |-> "https://images.unsplash.com/photo-1555066931-4365d14bab8c?q=80&w=1200&auto=format&fit=crop",
             category |-> "ebook",
             download_url |-> NoneVal,
             in_stock |-> TRUE]),
     PyDict([title |-> "Full-Stack Course Bundle",
             description |-> "Self-paced video + workbook bundle.",
             price |-> 79,
             cover_image |-> "https://images.unsplash.com/photo-1515879218367-8466d910aaa4?q=80&w=1200&auto=format&fit=crop",
             category |-> "course",
             download_url |-> NoneVal,
             in_stock |-> TRUE]) >>

DEMO_LIBRARY ==
  << PyDict([title |-> "Clean Code",
             kind |-> "book",
             platform |-> "Amazon",
             link |-> "https://www.amazon.com/dp/0132350882",
             thumbnail |-> "https://images.unsplash.com/photo-1515879218367-8466d910aaa4?q=80&w=600&auto=format&fit=crop",
             author_or_channel |-> "Robert C. Martin",
             note |-> "A classic on writing maintainable software."]),
     PyDict([title |-> "React Hooks Crash Course",
             kind |-> "video",
             platform |-> "YouTube",
             link |-> "https://www.youtube.com/results?search_query=react+hooks+crash+course",
             thumbnail |-> "https://i.ytimg.com/vi/DPnqb74Smug/maxresdefault.jpg",
             author_or_channel |-> "Traversy Media",
             note |-> "Great intro to hooks."]),
     PyDict([title |-> "Our Planet",
             kind |-> "streaming",
             platform |-> "Netflix",
             link |-> "https://www.netflix.com/title/80049832",
             thumbnail |-> "https://images.unsplash.com/photo-1518733057094-95b53143d2a7?q=80&w=1200&auto=format&fit=crop",
             author_or_channel |-> "Netflix",
             note |-> "Nature documentary (desktop only link)."]) >>

(* --------------------- records the store may hold ---------------------- *)

ProductDoc(h, ttl, cat, pr) ==
  ("_id" :> Oid(h)) @@
  [title |-> ttl, description |-> "stored product", price |-> pr,
   cover_image |-> "https://cdn.example/p.png", category |-> cat,
   download_url |-> Str("https://cdn.example/p.zip"), in_stock |-> TRUE]

LibraryDoc(h, ttl, k) ==
  ("_id" :> Oid(h)) @@
  [title |-> ttl, kind |-> k, platform |-> "Shelf",
   link |-> "https://shelf.example/item", thumbnail |-> "https://shelf.example/t.png",
   author_or_channel |-> "Somebody", note |-> "stored item"]

\* A record written without one of the schema's required fields.
Without(d, k) == [f \in DOMAIN d \ {k} |-> d[f]]

ProductDocs ==
  { ProductDoc("65a1", "Typed Python", "ebook", 19),
    ProductDoc("65a2", "SQL Workshop", "course", 49),
    Without(ProductDoc("65a3", "Untitled", "ebook", 5), "title") }

LibraryDocs ==
  { LibraryDoc("77b1", "Refactoring", "book"),
    LibraryDoc("77b2", "TLA+ Video Course", "video"),
    Without(LibraryDoc("77b3", "Linkless", "book"), "link") }

OrderPayloads ==
  { [email |-> "ann@example.com", product_id |-> "65a1"],
    [email |-> "bob@example.com", product_id |-> "no-such-product"] }

\* Identifier the store assigns to the n-th inserted order.
OrderOid(n) == Oid(<<"90c1", "90c2", "90c3", "90c4">>[n])

\* Messages of the errors a store call can raise (empty, short, > 50 chars).
ErrEmpty == <<>>
ErrShort == <<"d", "o", "w", "n">>
ErrLong == [i \in 1..60 |-> "x"]
ErrorMessages == {ErrEmpty, ErrShort, ErrLong}

\* Values of the kind query parameter: absent, empty, matching, unmatched.
Kinds == {NoneVal, Str(""), Str("book"), Str("video"), Str("streaming"), Str("podcast")}

\* Sequences without repetition (identifiers are unique in a collection).
InjSeqs(S, n) ==
  UNION { { s \in [1..k -> S] : \A i, j \in 1..k : i # j => s[i] # s[j] } : k \in 0..n }

(* ------------------- the store behind database.py ---------------------- *)

Collections == <<"digitalproduct", "libraryitem", "order">>

EmptyStore == [c \in {"digitalproduct", "libraryitem", "order"} |-> <<>>]

\* A record matches an equality filter when it has every key with that value.
Matches(doc, filter_q) ==
  \A k \in DOMAIN filter_q : k \in DOMAIN doc /\ doc[k] = filter_q[k]

\* One store call made by a handler, as the handler's trace records it.
Call(op, coll, filter_q, out) ==
  [op |-> op, coll |-> coll, filter_q |-> filter_q,
   raised |-> out.raised, docs |-> IF op = "fetch" THEN out.val ELSE <<>>]

\* get_documents(collection_name, filter_dict): every matching record, in the
\* collection's order; fails when the store is unreachable (env.fails).
get_documents(st, coll, filter_q, env) ==
  IF env.fails THEN Raised(env.err)
  ELSE Returned(SelectSeq(st[coll], LAMBDA d : Matches(d, filter_q)))

\* create_document(collection_name, data): inserts one record under a fresh
\* identifier and returns str(inserted_id); fails when the write is rejected.
create_document(st, coll, data, env) ==
  IF env.fails THEN [out |-> Raised(env.err), store |-> st]
  ELSE LET oid == OrderOid(Len(st[coll]) + 1)
       IN [out |-> Returned(PyStr(oid)),
           store |-> [st EXCEPT ![coll] = Append(@, ("_id" :> oid) @@ data)]]

\* db.list_collection_names(): the collections that hold a record.
list_collection_names(st, env) ==
  IF env.fails THEN Raised(env.err)
  ELSE Returned(SelectSeq(Collections, LAMBDA c : st[c] # <<>>))

(* ------------------------------ schemas -------------------------------- *)

RequiredFields(cls) ==
  IF cls = "DigitalProduct"
  THEN {"title", "description", "price", "cover_image", "category", "in_stock"}
  ELSE {"title", "kind", "platform", "link", "thumbnail", "author_or_channel", "note"}

\* DigitalProduct(**d) / LibraryItem(**d): a schema object holding the fields,
\* or a validation error when a required field is missing.
Construct(cls, d) ==
  IF RequiredFields(cls) \subseteq DOMAIN d
  THEN Returned(PyModel(cls, d))
  ELSE Raised(<<"v", "a", "l", "i", "d", "a", "t", "i", "o", "n">>)

\* i["kind"]: a dict is subscriptable, a schema object is not (TypeError).
Subscript(i, k) ==
  IF i.py = "dict" /\ k \in DOMAIN i.d
  THEN Returned(i.d[k])
  ELSE Raised(<<"n", "o", "t", " ", "s", "u", "b", "s", "c", "r", "i", "p", "t", "a", "b", "l", "e">>)

(* ------------------------------ helpers -------------------------------- *)

\* Slip: the identifier is left under its internal key.
_serialize_keeps_internal_key(doc) == doc

_serialize(doc) ==
  IF DOMAIN doc = {} THEN doc
  ELSE IF "_id" \in DOMAIN doc
       THEN [k \in (DOMAIN doc \ {"_id"}) \cup {"id"} |->
               IF k = "id" THEN PyStr(doc["_id"]) ELSE doc[k]]
       ELSE doc

\* [cls(**_serialize(d)) for d in docs]: raises at the first invalid record.
ConstructAll(cls, docs) ==
  IF \E n \in 1..Len(docs) : Construct(cls, _serialize(docs[n])).raised
  THEN Raised(<<"v", "a", "l", "i", "d", "a", "t", "i", "o", "n">>)
  ELSE Returned([n \in 1..Len(docs) |-> Construct(cls, _serialize(docs[n])).val])

\* [i for i in items if i["kind"] == kind]: raises when a subscript raises.
FilterKind(items, kind) ==
  IF \E n \in 1..Len(items) : Subscript(items[n], "kind").raised
  THEN Raised(<<"n", "o", "t", " ", "s", "u", "b", "s", "c", "r", "i", "p", "t", "a", "b", "l", "e">>)
  ELSE Returned(SelectSeq(items, LAMBDA i : Subscript(i, "kind").val = kind.v))

(* ------------------------------ handlers ------------------------------- *)

\* What a handler hands back: the HTTP status, the body (or the error's
\* detail), the store calls it made, and the store after it.
Reply(status, body, detail, calls, st) ==
  [status |-> status, body |-> body, detail |-> detail, calls |-> calls, store |-> st]

\* Slip: no catch-all, a failing fetch reaches the caller as an error.
list_products_propagates(dbv, st, env) ==
  IF ~dbv THEN Reply(200, DEMO_PRODUCTS, <<>>, <<>>, st)
  ELSE LET docs == get_documents(st, "digitalproduct", <<>>, env)
           calls == <<Call("fetch", "digitalproduct", <<>>, docs)>>
       IN IF docs.raised THEN Reply(500, <<>>, docs.msg, calls, st)
          ELSE IF docs.val = <<>> THEN Reply(200, DEMO_PRODUCTS, <<>>, calls, st)
          ELSE LET out == ConstructAll("DigitalProduct", docs.val)
               IN IF out.raised THEN Reply(500, <<>>, out.msg, calls, st)
                  ELSE Reply(200, out.val, <<>>, calls, st)

\* Slip: a fetch that raised is tried a second time before the demo answer.
list_products_retries(dbv, st, env) ==
  IF ~dbv THEN Reply(200, DEMO_PRODUCTS, <<>>, <<>>, st)
  ELSE LET docs == get_documents(st, "digitalproduct", <<>>, env)
           first == Call("fetch", "digitalproduct", <<>>, docs)
           calls == IF docs.raised THEN <<first, first>> ELSE <<first>>
       IN IF docs.raised THEN Reply(200, DEMO_PRODUCTS, <<>>, calls, st)
          ELSE IF docs.val = <<>> THEN Reply(200, DEMO_PRODUCTS, <<>>, calls, st)
          ELSE LET out == ConstructAll("DigitalProduct", docs.val)
               IN IF out.raised THEN Reply(200, DEMO_PRODUCTS, <<>>, calls, st)
                  ELSE Reply(200, out.val, <<>>, calls, st)

list_products(dbv, st, env) ==
  IF ~dbv THEN Reply(200, DEMO_PRODUCTS, <<>>, <<>>, st)
  ELSE LET docs == get_documents(st, "digitalproduct", <<>>, env)
           calls == <<Call("fetch", "digitalproduct", <<>>, docs)>>
       IN IF docs.raised THEN Reply(200, DEMO_PRODUCTS, <<>>, calls, st)
          ELSE IF docs.val = <<>> THEN Reply(200, DEMO_PRODUCTS, <<>>, calls, st)
          ELSE LET out == ConstructAll("DigitalProduct", docs.val)
               IN IF out.raised THEN Reply(200, DEMO_PRODUCTS, <<>>, calls, st)
                  ELSE Reply(200, out.val, <<>>, calls, st)

\* Slip: the except branch forgets the kind.
LibraryExcept_unfiltered(kind) == DEMO_LIBRARY

\* The except branch of list_library: the demo items of that kind, or all of
\* them when kind is None.
LibraryExcept(kind) ==
  SelectSeq(DEMO_LIBRARY,
            LAMBDA i : (kind.t = "str" /\ i.d["kind"] = kind.v) \/ kind.t = "none")

list_library(dbv, st, kind, env) ==
  LET filter_q == IF Truthy(kind) THEN ("kind" :> kind.v) ELSE <<>>
      docs == get_documents(st, "libraryitem", filter_q, env)
      calls == IF dbv THEN <<Call("fetch", "libraryitem", filter_q, docs)>> ELSE <<>>
      built == IF docs.val # <<>> THEN ConstructAll("LibraryItem", docs.val)
               ELSE Returned(<<>>)
      \* items after the if/else on db; raised when the fetch or a schema raised
      selected == IF ~dbv THEN Returned(DEMO_LIBRARY)
                  ELSE IF docs.raised THEN docs
                  ELSE IF built.raised THEN built
                  ELSE IF built.val = <<>> THEN Returned(DEMO_LIBRARY)
                  ELSE built
      filtered == IF selected.raised THEN selected
                  ELSE IF Truthy(kind) THEN FilterKind(selected.val, kind)
                  ELSE selected
  IN IF filtered.raised THEN Reply(200, LibraryExcept(kind), <<>>, calls, st)
     ELSE Reply(200, filtered.val, <<>>, calls, st)

OrderMessage == "Order received. Check your email for delivery."

\* Slip: the handle is not tested, the insert is made without one.
create_order_ignores_handle(dbv, st, order, env) ==
  LET made == create_document(st, "order", order, env)
      calls == <<Call("insert", "order", <<>>, made.out)>>
  IN IF made.out.raised THEN Reply(500, <<>>, made.out.msg, calls, made.store)
     ELSE Reply(200, [order_id |-> made.out.val, message |-> OrderMessage], <<>>, calls, made.store)

\* Slip: the record is written although the request ends in the error.
create_order_writes_on_error(dbv, st, order, env) ==
  LET made == create_document(st, "order", order, env)
      forced == create_document(st, "order", order, [env EXCEPT !.fails = FALSE])
      calls == <<Call("insert", "order", <<>>, made.out)>>
  IN IF dbv
     THEN IF made.out.raised
          THEN Reply(500, <<>>, made.out.msg, calls, forced.store)
          ELSE Reply(200, [order_id |-> made.out.val, message |-> OrderMessage], <<>>, calls, made.store)
     ELSE Reply(200, [order_id |-> Str("demo-order-id"), message |-> OrderMessage], <<>>, <<>>, st)

create_order(dbv, st, order, env) ==
  LET data == order
      made == create_document(st, "order", data, env)
  IN IF dbv
     THEN IF made.out.raised
          THEN Reply(500, <<>>, made.out.msg, <<Call("insert", "order", <<>>, made.out)>>, made.store)
          ELSE Reply(200, [order_id |-> made.out.val, message |-> OrderMessage], <<>>,
                     <<Call("insert", "order", <<>>, made.out)>>, made.store)
     ELSE Reply(200, [order_id |-> Str("demo-order-id"), message |-> OrderMessage], <<>>, <<>>, st)

\* The "database" line of the diagnostics: a text (written here without its
\* leading status emoji) and, after an error, the first 50 characters of its
\* message.
Status(text, detail) == [text |-> text, detail |-> detail]

test_database(dbv, st, env) ==
  LET names == list_collection_names(st, env)
      calls == IF dbv THEN <<Call("list_collection_names", "", <<>>, names)>> ELSE <<>>
      database == IF ~dbv THEN Status("Available but not initialized", <<>>)
                  ELSE IF names.raised THEN Status("Connected but Error: ", Take(names.msg, 50))
                  ELSE Status("Connected & Working", <<>>)
      working == dbv /\ ~names.raised
  IN Reply(200,
           [backend |-> "Running",
            database |-> database,
            database_url |-> IF env.url THEN "Set" ELSE "Not Set",
            database_name |-> IF env.name THEN "Set" ELSE "Not Set",
            connection_status |-> IF working THEN "Connected" ELSE "Not Connected",
            collections |-> IF working THEN Take(names.val, 10) ELSE <<>>],
           <<>>, calls, st)

(* ---------------------------- state machine ---------------------------- *)

\* What the environment decides for one request: whether the store call
\* fails and with which message, and which configuration variables are set.
Envs == [fails : BOOLEAN, err : ErrorMessages, url : BOOLEAN, name : BOOLEAN]

\* The store call outcome only matters through fails/err; url/name only to
\* the diagnostics.
StoreEnvs == { e \in Envs : e.url /\ e.name /\ (~e.fails => e.err = ErrShort) }

\* What the caller and the store client see of a reply; the store itself is
\* the variable store.
Seen(reply) ==
  [status |-> reply.status, body |-> reply.body, detail |-> reply.detail,
   calls |-> reply.calls]

NoRequest == [handler |-> "none", kind |-> NoneVal, order |-> <<>>, env |-> <<>>]

Init ==
  /\ db \in BOOLEAN
  /\ store \in IF db
               THEN { [digitalproduct |-> p, libraryitem |-> l, order |-> <<>>] :
                        p \in InjSeqs(ProductDocs, MaxProducts),
                        l \in InjSeqs(LibraryDocs, MaxLibrary) }
               ELSE {EmptyStore}
  /\ req = NoRequest
  /\ resp = Seen(Reply(0, <<>>, <<>>, <<>>, store))

Answer(handler, kind, order, env, reply) ==
  /\ req' = [handler |-> handler, kind |-> kind, order |-> order, env |-> env]
  /\ resp' = Seen(reply)
  /\ store' = reply.store
  /\ UNCHANGED db

ListProducts ==
  \E env \in StoreEnvs :
    Answer("list_products", NoneVal, <<>>, env, list_products(db, store, env))

ListLibrary ==
  \E kind \in Kinds, env \in StoreEnvs :
    Answer("list_library", kind, <<>>, env, list_library(db, store, kind, env))

CreateOrder ==
  \E order \in OrderPayloads, env \in StoreEnvs :
    /\ Len(store["order"]) < MaxOrders \/ env.fails \/ ~db
    /\ Answer("create_order", NoneVal, order, env, create_order(db, store, order, env))

TestDatabase ==
  \E env \in { e \in Envs : ~e.fails => e.err = ErrShort } :
    Answer("test_database", NoneVal, <<>>, env, test_database(db, store, env))

Next == ListProducts \/ ListLibrary \/ CreateOrder \/ TestDatabase

Spec == Init /\ [][Next]_vars

(* ------------------------- vocabulary of the claims -------------------- *)

Range(s) == { s[n] : n \in 1..Len(s) }

IsRead == req.handler \in {"list_products", "list_library"}

\* The request made its fetch and the fetch came back with >= 1 record.
FetchedSome ==
  /\ Len(resp.calls) = 1
  /\ resp.calls[1].op = "fetch"
  /\ ~resp.calls[1].raised
  /\ resp.calls[1].docs # <<>>

\* The three cases without live data: no handle, fetch raised, fetch empty.
NoHandle == ~db
FetchRaised == db /\ Len(resp.calls) = 1 /\ resp.calls[1].raised
FetchedNone == db /\ Len(resp.calls) = 1 /\ ~resp.calls[1].raised /\ resp.calls[1].docs = <<>>
NoLiveData == NoHandle \/ FetchRaised \/ FetchedNone

\* A store record as the caller should see it: _id renamed to a string id.
Renamed(doc) ==
  [k \in (DOMAIN doc \ {"_id"}) \cup {"id"} |->
     IF k = "id" THEN Str(doc["_id"].v) ELSE doc[k]]

\* The response is exactly the fetched records, renamed, in the fetched order.
ServesFetched ==
  /\ resp.status = 200
  /\ Len(resp.body) = Len(resp.calls[1].docs)
  /\ \A n \in 1..Len(resp.body) : resp.body[n].d = Renamed(resp.calls[1].docs[n])

NoDemoItem(demo) ==
  \A n \in 1..Len(resp.body) : \A m \in 1..Len(demo) : resp.body[n].d # demo[m].d

AllValid(cls) ==
  \A n \in 1..Len(resp.calls[1].docs) :
     RequiredFields(cls) \subseteq DOMAIN resp.calls[1].docs[n]

DemoOfKind(k) == SelectSeq(DEMO_LIBRARY, LAMBDA i : i.d["kind"] = k)

(* -------------------------------- claims ------------------------------- *)

\* C1: in every store state and for every kind, list_products and
\* list_library answer with a list (status 200, no error detail) and never
\* hand an error to the caller.
C1_ReadsNeverFail ==
  IsRead =>
    /\ resp.status = 200
    /\ resp.detail = <<>>
    /\ \A n \in 1..Len(resp.body) : resp.body[n].py \in {"dict", "model"}

\* C1 witness: a read whose fetch raised, answered all the same.
C1_Witness ==
  /\ req.handler = "list_products"
  /\ FetchRaised
  /\ resp.status = 200

\* C2 (as claimed, for fetched records that satisfy the schema): list_library
\* with a handle whose fetch returns >= 1 record answers with exactly those
\* records and with no demo item, whatever kind is.
C2_LibraryServesStoreRecords ==
  (req.handler = "list_library" /\ db /\ FetchedSome /\ AllValid("LibraryItem")) =>
    (ServesFetched /\ NoDemoItem(DEMO_LIBRARY))

\* C3 (as claimed): list_products with a handle whose fetch returns >= 1
\* record answers with exactly those records, in order, _id renamed to id,
\* and with no demo product.
C3_ProductsServeStoreRecords ==
  (req.handler = "list_products" /\ db /\ FetchedSome) =>
    (ServesFetched /\ NoDemoItem(DEMO_PRODUCTS))

\* C3 (amended): the same, when every fetched record passes the
\* DigitalProduct schema.
C3_ProductsServeValidStoreRecords ==
  (req.handler = "list_products" /\ db /\ FetchedSome /\ AllValid("DigitalProduct")) =>
    (ServesFetched /\ NoDemoItem(DEMO_PRODUCTS))

\* C3 witness: two valid products fetched and served.
C3_Witness ==
  /\ req.handler = "list_products"
  /\ db
  /\ FetchedSome
  /\ AllValid("DigitalProduct")
  /\ Len(resp.calls[1].docs) = 2
  /\ Len(resp.body) = 2

\* C4 (as claimed): without live data (no handle, fetch raised, fetch empty)
\* list_products answers the demo products and list_library the demo library,
\* restricted to kind when a kind is given; without a handle no store call is
\* made.
C4_DemoWithoutLiveData ==
  /\ (req.handler = "list_products" /\ NoLiveData) => resp.body = DEMO_PRODUCTS
  /\ (req.handler = "list_library" /\ NoLiveData) =>
       resp.body = IF Truthy(req.kind) THEN DemoOfKind(req.kind.v) ELSE DEMO_LIBRARY
  /\ (IsRead /\ NoHandle) => resp.calls = <<>>

\* C5: list_library with a non-empty kind k answers only items of kind k, on
\* every path; on the demo fallback kind "book" gives exactly the one demo
\* book and kind "podcast" gives the empty list.
C5_KindAlwaysEnforced ==
  (req.handler = "list_library" /\ Truthy(req.kind)) =>
    /\ resp.status = 200
    /\ \A n \in 1..Len(resp.body) :
         "kind" \in DOMAIN resp.body[n].d /\ resp.body[n].d["kind"] = req.kind.v
    /\ (NoLiveData /\ req.kind = Str("book")) => resp.body = <<DEMO_LIBRARY[1]>>
    /\ (NoLiveData /\ req.kind = Str("podcast")) => resp.body = <<>>

\* C5 witness: kind "book" asked of a store that returned book records.
C5_Witness ==
  /\ req.handler = "list_library"
  /\ req.kind = Str("book")
  /\ FetchedSome
  /\ resp.body # <<>>

\* C6 (as claimed): create_order with a handle whose insert raises answers
\* 500 with a non-empty detail, for every error, the empty-message one too.
C6_InsertErrorHasDetail ==
  (req.handler = "create_order" /\ db /\ Len(resp.calls) = 1 /\ resp.calls[1].raised) =>
    (resp.status = 500 /\ resp.detail # <<>>)

\* C7: create_order without a handle answers exactly the placeholder id and
\* the fixed message, attempts no insert and persists nothing.
C7_StorelessOrder ==
  (req.handler = "create_order" /\ ~db) =>
    /\ resp.status = 200
    /\ resp.body = [order_id |-> Str("demo-order-id"),
                    message |-> "Order received. Check your email for delivery."]
    /\ resp.calls = <<>>
    /\ store = EmptyStore

\* C7 witness: an order for a product that does not exist, no handle.
C7_Witness ==
  /\ req.handler = "create_order"
  /\ ~db
  /\ req.order["product_id"] = "no-such-product"
  /\ resp.status = 200

\* C8 (as claimed): every record of a list response has a string id and no
\* _id field, whether it comes from the store or from the demo set.
C8_EveryRecordHasId ==
  IsRead =>
    \A n \in 1..Len(resp.body) :
       /\ "id" \in DOMAIN resp.body[n].d
       /\ resp.body[n].d["id"].t = "str"
       /\ "_id" \notin DOMAIN resp.body[n].d

\* C9: the store changes only by a create_order whose insert succeeds, which
\* appends exactly one order record; every other request leaves the store as
\* it is; no record is updated or deleted; the handle never changes.
C9_OnlyOrdersAreWritten ==
  [][ /\ db' = db
      /\ store'["digitalproduct"] = store["digitalproduct"]
      /\ store'["libraryitem"] = store["libraryitem"]
      /\ (store' # store) =>
           /\ req'.handler = "create_order"
           /\ db
           /\ resp'.status = 200
           /\ Len(store'["order"]) = Len(store["order"]) + 1
           /\ SubSeq(store'["order"], 1, Len(store["order"])) = store["order"]
      /\ (req'.handler # "create_order" \/ resp'.status # 200 \/ ~db) => store' = store
    ]_vars

\* C9 witness: an accepted order is in the store and a later read left it there.
C9_Witness ==
  /\ Len(store["order"]) = 1
  /\ req.handler = "list_library"

\* C10: one request makes at most one store call; a fetch or insert that
\* raised or came back empty is not tried again.
C10_AtMostOneStoreCall ==
  req.handler \in {"list_products", "list_library", "create_order"} =>
    Len(resp.calls) <= 1

\* C10 witness: an insert raised and the request ended with that one call.
C10_Witness ==
  /\ req.handler = "create_order"
  /\ Len(resp.calls) = 1
  /\ resp.calls[1].raised
  /\ resp.status = 500

====
